---- MODULE Spec2Model ----
(***************************************************************************)
(* A model of the Zoon value type (src/zoon.py) and of the process runner  *)
(* it hands its files to.  Byte arrays live in a heap of storages so that  *)
(* aliasing between a Zoon and the Zoons derived from it is observable.    *)
(***************************************************************************)
EXTENDS Integers, Sequences, FiniteSets, TLC

VARIABLES
    heap,       \* the arrays allocated so far: storage id -> sequence of bytes
    zoons,      \* the Zoon objects: each names the storage of its __byteseq
    last,       \* the last call on a Zoon: its arguments and its outcome
    room,       \* how many Zoon objects the client keeps
    runner,     \* the process runner: one invocation of run.run
    fs,         \* the files: path -> content and permission bits
    calls       \* the concurrent callers of Zoon.run and Zoon.mutate_and_run

entityVars == <<heap, zoons, last, room>>
vars == <<heap, zoons, last, room, runner, fs, calls>>

(***************************************************************************)
(* Bounds of the model.                                                    *)
(***************************************************************************)
\* Zoon objects the client keeps when every position and range is tried.
MaxZoons == 2
\* Zoon objects the client keeps when sampled positions and ranges are tried.
MaxChain == 3
\* How far past either end of a Zoon the positions and indices range.
Slack == 1
\* The longest run time and the longest timeout, in seconds.
MaxTicks == 3

(***************************************************************************)
(* Python primitives the code relies on.                                   *)
(***************************************************************************)
Min(a, b) == IF a < b THEN a ELSE b
Max(a, b) == IF a > b THEN a ELSE b

\* divmod(a, b) for b > 0: floor division and a remainder in 0..b-1.
divmod(a, b) == <<a \div b, a % b>>

\* Where a slice bound lands in a sequence of length n: a negative bound
\* counts from the end, and every bound is clamped into 0..n.
SliceBound(n, k) == IF k < 0 THEN Max(k + n, 0) ELSE Min(k, n)

\* seq[:stop]
SliceTo(seq, stop) == SubSeq(seq, 1, SliceBound(Len(seq), stop))

\* seq[start:]
SliceFrom(seq, start) == SubSeq(seq, SliceBound(Len(seq), start) + 1, Len(seq))

\* Whether seq[i] is an IndexError: the index is outside -n..n-1.
IndexError(n, i) == i < -n \/ i >= n

\* The 1-based place of seq[i] for an index that is no IndexError.
IndexOf(n, i) == (IF i < 0 THEN i + n ELSE i) + 1

(***************************************************************************)
(* utils.to_bytes and utils.toggle_bit_in_byte.                            *)
(***************************************************************************)
RECURSIVE BitsToInt(_)
BitsToInt(cs) ==
    IF cs = <<>> THEN 0
    ELSE 2 * BitsToInt(SubSeq(cs, 1, Len(cs) - 1))
         + (IF cs[Len(cs)] = "1" THEN 1 ELSE 0)

\* Each consecutive group of 8 characters, most significant bit first, is a byte.
to_bytes(s) ==
    [i \in 1..(Len(s) \div 8) |-> BitsToInt(SubSeq(s, 8 * (i - 1) + 1, 8 * i))]

RECURSIVE BitXor(_, _, _)
BitXor(a, b, w) ==
    IF w = 0 THEN 0
    ELSE (((a % 2) + (b % 2)) % 2) + 2 * BitXor(a \div 2, b \div 2, w - 1)

\* byte ^ (1 << offset)
toggle_bit_in_byte(offset, byte) == BitXor(byte, 2 ^ offset, 8)

(***************************************************************************)
(* Zoon: construction.                                                     *)
(***************************************************************************)
\* The bit-literals the first Zoon is built from.
Literals ==
    { <<>>,
      <<"0","1","1","0","0","0","0","1">>,
      <<"0","1","1","0","0","0","0","1", "1","1","1","1","1","1","1","1">>,
      <<"1","0","0","0","0","0","0","0", "0","0","0","0","0","0","0","0">> }

\* Zoon(str): a fresh array filled by frombytes(to_bytes(initializer)).
ZoonFromStr(h, initializer) ==
    [heap |-> Append(h, to_bytes(initializer)), store |-> Len(h) + 1]

\* A faulty variant of ZoonFromZoon: the new Zoon keeps the initializer's array.
ZoonFromZoonShared(h, srcStore) == [heap |-> h, store |-> srcStore]

\* Zoon(Zoon): a fresh array extended with the initializer's bytes.
ZoonFromZoon(h, srcStore) ==
    [heap |-> Append(h, h[srcStore]), store |-> Len(h) + 1]

\* A Zoon object: what it was built from, and its array.
NewZoon(initializer, store) == [initializer |-> initializer, store |-> store]

\* Zoon.byteseq (getter): the underlying array itself.
byteseq(z) == heap[zoons[z].store]

\* Zoon.__len__: the length in bits.
ZoonLen(z) == Len(byteseq(z)) * 8

NoResult == 0

Record(op, recv, a, b, out, res, before) ==
    [op |-> op, recv |-> recv, a |-> a, b |-> b, out |-> out, res |-> res,
     before |-> before]

(***************************************************************************)
(* Zoon.mutate                                                             *)
(***************************************************************************)
\* A faulty variant of MutateBit: the bit is addressed from the least significant end.
MutateBitFromLow(bit) == bit

\* The offset handed to toggle_bit_in_byte for bit `bit` of the byte.
MutateBit(bit) == 7 - bit

\* The heap and the store of self.mutate(position), or an IndexError.
MutateOn(h, selfStore, position) ==
    LET dm     == divmod(position, 8)
        byte   == dm[1]
        bit    == dm[2]
        mutant == ZoonFromZoon(h, selfStore)
        arr    == mutant.heap[mutant.store]
        n      == Len(arr)
    IN  IF IndexError(n, byte)
        THEN [out |-> "IndexError", heap |-> h, store |-> NoResult]
        ELSE [out |-> "ok",
              heap |-> [mutant.heap EXCEPT ![mutant.store][IndexOf(n, byte)] =
                           toggle_bit_in_byte(MutateBit(bit), arr[IndexOf(n, byte)])],
              store |-> mutant.store]

Positions(z) == (-(ZoonLen(z)) - Slack) .. (ZoonLen(z) + Slack - 1)

Mutate(z, position) ==
    LET r == MutateOn(heap, zoons[z].store, position)
    IN  /\ r.out = "ok" => Len(zoons) < room
        /\ heap' = r.heap
        /\ zoons' = IF r.out = "ok"
                    THEN Append(zoons, NewZoon(z, r.store))
                    ELSE zoons
        /\ last' = Record("mutate", z, position, 0, r.out,
                          IF r.out = "ok" THEN Len(zoons) + 1 ELSE NoResult,
                          byteseq(z))
        /\ UNCHANGED <<room, runner, fs, calls>>

(***************************************************************************)
(* Zoon.delete                                                             *)
(***************************************************************************)
\* A faulty variant of DeleteBytes: the byte at stop is dropped as well.
DeleteBytesClosed(arr, start, stop) == SliceTo(arr, start) \o SliceFrom(arr, stop + 1)

\* byteseq[:start] + byteseq[stop:]
DeleteBytes(arr, start, stop) == SliceTo(arr, start) \o SliceFrom(arr, stop)

\* The heap and the store of self.delete(start, stop): the copy's array is
\* replaced by a new array built from the two slices (the byteseq setter).
DeleteOn(h, selfStore, start, stop) ==
    LET mutant == ZoonFromZoon(h, selfStore)
        arr    == mutant.heap[mutant.store]
    IN  [out |-> "ok",
         heap |-> Append(h, DeleteBytes(arr, start, stop)),
         store |-> Len(h) + 1]

Bounds(z) == (-(Len(byteseq(z))) - Slack) .. (Len(byteseq(z)) + Slack)

Delete(z, start, stop) ==
    LET r == DeleteOn(heap, zoons[z].store, start, stop)
    IN  /\ Len(zoons) < room
        /\ heap' = r.heap
        /\ zoons' = Append(zoons, NewZoon(z, r.store))
        /\ last' = Record("delete", z, start, stop, r.out, Len(zoons) + 1, byteseq(z))
        /\ UNCHANGED <<room, runner, fs, calls>>

(***************************************************************************)
(* Zoon(Zoon) called by a client, and a client's write into the array the  *)
(* byteseq getter hands out.                                               *)
(***************************************************************************)
Copy(z) ==
    LET r == ZoonFromZoon(heap, zoons[z].store)
    IN  /\ Len(zoons) < room
        /\ heap' = r.heap
        /\ zoons' = Append(zoons, NewZoon(z, r.store))
        /\ last' = Record("copy", z, 0, 0, "ok", Len(zoons) + 1, byteseq(z))
        /\ UNCHANGED <<room, runner, fs, calls>>

\* The values a client stores.
Stored == {255}

\* z.byteseq[i] = v on a derived Zoon z.
SetByte(z, i, v) ==
    /\ z # 1
    /\ i \in 1..Len(byteseq(z))
    /\ heap' = [heap EXCEPT ![zoons[z].store][i] = v]
    /\ last' = Record("setbyte", z, i - 1, v, "ok", NoResult, byteseq(z))
    /\ UNCHANGED <<zoons, room, runner, fs, calls>>

(***************************************************************************)
(* run.run: the process runner.  A command names a file to launch; what    *)
(* the launched process does is the environment's choice.                  *)
(***************************************************************************)
\* Texts (stdout, the error stream, the error detail) are sequences of tokens.
NoText == <<>>

\* The outcome of no invocation.
NoRun == <<>>

\* The exit statuses a process ends with; 2 and 124 are also codes the runner
\* itself reports.
ExitCodes == {0, 1, 2, 124}

\* What a command turns out to be: whether its executable is found, how long
\* it runs, its exit status, and what it writes.
Procs ==
    [found : BOOLEAN, runtime : 0..MaxTicks, exit : ExitCodes,
     out : {NoText, <<"today">>}, err : {NoText, <<"No such file or directory">>}]

\* (0, "success", stdout, "")
SuccessResult(proc) == <<0, "success", proc.out, NoText>>

\* A faulty variant of ErrorDetail: the captured error stream is discarded.
ErrorDetailDiscarded(proc) == NoText

\* The error detail of a process that exited non-zero: its error stream.
ErrorDetail(proc) == proc.err

\* (exit status, "calledprocesserror", "", error detail)
CalledProcessErrorResult(proc) ==
    <<proc.exit, "calledprocesserror", NoText, ErrorDetail(proc)>>

\* (2, "filenotfounderror", "", "[Errno 2] No such file or directory: <path>")
FileNotFoundResult(path) ==
    <<2, "filenotfounderror", NoText, <<"[Errno 2] No such file or directory: ", path>> >>

\* A faulty variant of TimeoutResult: the code is the killed process's own status.
TimeoutResultOfProcess(proc) == <<proc.exit, "timeoutexpired", NoText, NoText>>

\* (124, "timeoutexpired", "", "")
TimeoutResult(proc) == <<124, "timeoutexpired", NoText, NoText>>

\* The result of a process that ran to completion.
CompletedResult(proc) ==
    IF proc.exit = 0 THEN SuccessResult(proc) ELSE CalledProcessErrorResult(proc)

\* The runner between invocations.
IdleRunner ==
    [state |-> "Idle", path |-> "",
     proc |-> [found |-> FALSE, runtime |-> 0, exit |-> 0, out |-> NoText, err |-> NoText],
     timeout |-> 0, clock |-> 0, attempts |-> 0, result |-> NoRun]

RunnerIdle == runner = IdleRunner

\* run(command, timeout) is called.
RunnerCall(path, proc, timeout) ==
    /\ runner.state = "Idle"
    /\ runner' = [state |-> "Launching", path |-> path, proc |-> proc,
                  timeout |-> timeout, clock |-> 0, attempts |-> 0, result |-> NoRun]
    /\ UNCHANGED <<entityVars, fs, calls>>

\* The one attempt to start the command.
RunnerLaunch ==
    /\ runner.state = "Launching"
    /\ runner' = IF runner.proc.found
                 THEN [runner EXCEPT !.state = "Running", !.attempts = @ + 1]
                 ELSE [runner EXCEPT !.state = "LaunchFailed", !.attempts = @ + 1,
                                     !.result = FileNotFoundResult(runner.path)]
    /\ UNCHANGED <<entityVars, fs, calls>>

\* A second passes with the process still running.
RunnerTick ==
    /\ runner.state = "Running"
    /\ runner.clock < runner.proc.runtime
    /\ runner.clock < runner.timeout
    /\ runner' = [runner EXCEPT !.clock = @ + 1]
    /\ UNCHANGED <<entityVars, fs, calls>>

\* The process exits before the timeout has been seen to expire.
RunnerComplete ==
    /\ runner.state = "Running"
    /\ runner.clock = runner.proc.runtime
    /\ runner' = [runner EXCEPT !.state = "Completed",
                                !.result = CompletedResult(runner.proc)]
    /\ UNCHANGED <<entityVars, fs, calls>>

\* The timeout expires with the process not seen to have exited: it is killed.
RunnerExpire ==
    /\ runner.state = "Running"
    /\ runner.clock = runner.timeout
    /\ runner' = [runner EXCEPT !.state = "TimedOut",
                                !.result = TimeoutResult(runner.proc)]
    /\ UNCHANGED <<entityVars, fs, calls>>

RunnerTerminal == runner.state \in {"Completed", "TimedOut", "LaunchFailed"}

\* The result is handed to the caller.
RunnerReturn ==
    /\ RunnerTerminal
    /\ runner' = IdleRunner
    /\ UNCHANGED <<entityVars, fs, calls>>

NoCalls == fs = <<>> /\ calls = <<>>

(***************************************************************************)
(* The entity specification: one Zoon built from a bit-literal, then every *)
(* call with every position and range around its receiver.                 *)
(***************************************************************************)
\* e = Zoon(s), the only Zoon so far.
ZoonIs(s, limit) ==
    LET r == ZoonFromStr(<<>>, s)
    IN  /\ heap = r.heap
        /\ zoons = << NewZoon(s, r.store) >>
        /\ last = Record("init", 1, 0, 0, "ok", 1, r.heap[r.store])
        /\ room = limit

ZoonInit(limit) == \E s \in Literals : ZoonIs(s, limit)

Init == ZoonInit(MaxZoons) /\ RunnerIdle /\ NoCalls

Next ==
    \/ \E z \in 1..Len(zoons) : Copy(z)
    \/ \E z \in 1..Len(zoons) : \E p \in Positions(z) : Mutate(z, p)
    \/ \E z \in 1..Len(zoons) : \E a, b \in Bounds(z) : Delete(z, a, b)

Spec == Init /\ [][Next]_vars

(***************************************************************************)
(* The aliasing specification: longer chains of derived Zoons, with the    *)
(* positions and ranges sampled at and around the ends of the receiver.    *)
(***************************************************************************)
SamplePositions(z) == {-1, 0, ZoonLen(z) - 1, ZoonLen(z)}

SampleRanges(z) ==
    LET n == Len(byteseq(z)) IN {<<0, 1>>, <<1, 1>>, <<-1, n>>}

AliasInit == ZoonInit(MaxChain) /\ RunnerIdle /\ NoCalls

AliasNext ==
    \/ \E z \in 1..Len(zoons) : Copy(z)
    \/ \E z \in 1..Len(zoons) : \E p \in SamplePositions(z) : Mutate(z, p)
    \/ \E z \in 1..Len(zoons) : \E r \in SampleRanges(z) : Delete(z, r[1], r[2])
    \/ \E z \in 1..Len(zoons) : \E i \in 1..Len(byteseq(z)) : \E v \in Stored :
          SetByte(z, i, v)

AliasSpec == AliasInit /\ [][AliasNext]_vars

(***************************************************************************)
(* The runner specification: any command, any timeout, one call at a time. *)
(***************************************************************************)
Commands == {"/usr/bin/true", "/u/jane/me/tarzan"}

RunnerInit == ZoonIs(<<>>, MaxZoons) /\ RunnerIdle /\ NoCalls

RunnerNext ==
    \/ \E path \in Commands : \E proc \in Procs : \E t \in 1..MaxTicks :
          RunnerCall(path, proc, t)
    \/ RunnerLaunch
    \/ RunnerTick
    \/ RunnerComplete
    \/ RunnerExpire
    \/ RunnerReturn

RunnerSpec == RunnerInit /\ [][RunnerNext]_vars

(***************************************************************************)
(* Zoon.write, Zoon.run and Zoon.mutate_and_run, called concurrently.      *)
(***************************************************************************)
Digits == <<"0", "1", "2", "3", "4", "5", "6", "7", "8", "9">>

RECURSIVE StrNat(_)
StrNat(n) ==
    IF n < 10 THEN <<Digits[n + 1]>>
    ELSE StrNat(n \div 10) \o <<Digits[(n % 10) + 1]>>

\* str(i): the decimal digits, after a minus sign when i < 0.
str(i) == IF i < 0 THEN <<"-">> \o StrNat(-i) ELSE StrNat(i)

\* dir_path / name
PathJoin(dir_path, name) == dir_path \o <<"/">> \o name

\* A faulty variant of MutantPath: the file is named after the byte, not the bit.
MutantPathOfByte(dir_path, position) == PathJoin(dir_path, str(position \div 8))

\* dir_path / str(position)
MutantPath(dir_path, position) == PathJoin(dir_path, str(position))

\* "%s %s" % (file_path, cmd_args)
Command(file_path, cmd_args) == file_path \o <<" ">> \o cmd_args

\* 0o755
ExecMode == 493

\* The permission bits open() gives a file it creates (the umask decides).
CreateModes == {420, 384}

\* A faulty variant of RunPrecondition: a timeout of 0 passes.
RunPreconditionWeak(timeout) == timeout >= 0

\* assert timeout > 0
RunPrecondition(timeout) == timeout > 0

\* A faulty variant of OpenWb: a file that exists keeps what it holds.
OpenKeeping(files, path, mode) ==
    IF path \in DOMAIN files
    THEN files
    ELSE (path :> [content |-> <<>>, mode |-> mode]) @@ files

\* open(file_path, "wb"): the file is created empty, or emptied if it exists.
OpenWb(files, path, mode) ==
    IF path \in DOMAIN files
    THEN [files EXCEPT ![path].content = <<>>]
    ELSE (path :> [content |-> <<>>, mode |-> mode]) @@ files

\* byteseq.tofile(fout) on the file opened above: the bytes are written from
\* offset 0, over what the file holds by now.
ToFile(files, path, bytes) ==
    [files EXCEPT ![path].content = bytes \o SubSeq(@, Len(bytes) + 1, Len(@))]

\* file_path.chmod(0o755)
ChmodExec(files, path) == [files EXCEPT ![path].mode = ExecMode]

\* What run.run(command, timeout) returns for the process the command starts;
\* `expired` says who wins when the exit and the timeout fall together.
RunResult(command, proc, timeout, expired) ==
    IF ~proc.found THEN FileNotFoundResult(command)
    ELSE IF proc.runtime < timeout \/ (proc.runtime = timeout /\ ~expired)
         THEN CompletedResult(proc)
         ELSE TimeoutResult(proc)

Callers == {1, 2}

\* The directory the mutants are written to.
Dir == <<"d">>

NotLaunched == [content |-> <<>>, mode |-> 0, command |-> <<>>]

IdleCall ==
    [pc |-> "idle", kind |-> "", position |-> 0, path |-> <<>>, args |-> <<>>,
     timeout |-> 0, zoon |-> 1, error |-> "", steps |-> <<>>, touched |-> {},
     existed |-> FALSE,
     written |-> <<>>, moded |-> 0, launched |-> NotLaunched, result |-> NoRun]

\* Zoon.run up to its first effect: the assertion.
RunEntry(call) ==
    IF RunPrecondition(call.timeout)
    THEN [call EXCEPT !.pc = "open"]
    ELSE [call EXCEPT !.pc = "failed", !.error = "AssertionError"]

\* Caller k calls e.run(path, args, timeout).
CallRun(k, path, args, timeout) ==
    /\ calls[k].pc = "idle"
    /\ calls' = [calls EXCEPT ![k] =
                    RunEntry([IdleCall EXCEPT !.kind = "run", !.path = path,
                                              !.args = args, !.timeout = timeout])]
    /\ UNCHANGED <<entityVars, runner, fs>>

\* Caller k calls e.mutate_and_run(position, Dir, args, timeout): the mutant
\* is made, the path is formed, and the mutant's run is entered.
CallMutateAndRun(k, position, args, timeout) ==
    LET m    == MutateOn(heap, zoons[1].store, position)
        call == [IdleCall EXCEPT !.kind = "mutate_and_run", !.position = position,
                                 !.args = args, !.timeout = timeout]
    IN  /\ calls[k].pc = "idle"
        /\ heap' = m.heap
        /\ IF m.out = "ok"
           THEN /\ zoons' = Append(zoons, NewZoon(1, m.store))
                /\ calls' = [calls EXCEPT ![k] =
                               RunEntry([call EXCEPT !.zoon = Len(zoons) + 1,
                                                     !.path = MutantPath(Dir, position)])]
           ELSE /\ zoons' = zoons
                /\ calls' = [calls EXCEPT ![k] =
                               [call EXCEPT !.pc = "failed", !.error = m.out]]
        /\ UNCHANGED <<last, room, runner, fs>>

\* Zoon.write, first half: the file is opened for writing.
Open(k, mode) ==
    LET c == calls[k]
    IN  /\ c.pc = "open"
        /\ fs' = OpenWb(fs, c.path, mode)
        /\ calls' = [calls EXCEPT ![k].pc = "tofile",
                                  ![k].existed = c.path \in DOMAIN fs,
                                  ![k].touched = @ \cup {c.path}]
        /\ UNCHANGED <<entityVars, runner>>

\* Zoon.write, second half: the bytes are written and the file is closed.
Write(k) ==
    LET c == calls[k]
    IN  /\ c.pc = "tofile"
        /\ fs' = ToFile(fs, c.path, byteseq(c.zoon))
        /\ calls' = [calls EXCEPT ![k].pc = "chmod",
                                  ![k].steps = Append(@, "write"),
                                  ![k].written = fs'[c.path].content,
                                  ![k].touched = @ \cup {c.path}]
        /\ UNCHANGED <<entityVars, runner>>

\* file_path.chmod(0o755)
Chmod(k) ==
    LET c == calls[k]
    IN  /\ c.pc = "chmod"
        /\ fs' = ChmodExec(fs, c.path)
        /\ calls' = [calls EXCEPT ![k].pc = "launch",
                                  ![k].steps = Append(@, "chmod"),
                                  ![k].moded = fs'[c.path].mode,
                                  ![k].touched = @ \cup {c.path}]
        /\ UNCHANGED <<entityVars, runner>>

\* What the launched file turns out to do.
Behaviours ==
    { [found |-> TRUE, runtime |-> 0, exit |-> 0, out |-> <<"today">>, err |-> NoText],
      [found |-> TRUE, runtime |-> 2, exit |-> 1, out |-> NoText, err |-> NoText] }

\* run.run(command, timeout=timeout), and its result returned to the caller.
Launch(k, proc) ==
    LET c       == calls[k]
        command == Command(c.path, c.args)
    IN  /\ c.pc = "launch"
        /\ calls' = [calls EXCEPT
                       ![k].pc = "done",
                       ![k].steps = Append(@, "launch"),
                       ![k].launched = [content |-> fs[c.path].content,
                                        mode |-> fs[c.path].mode,
                                        command |-> command],
                       ![k].result = RunResult(command, proc, c.timeout, FALSE)]
        /\ UNCHANGED <<entityVars, runner, fs>>

(***************************************************************************)
(* The harness specification: two callers share the Zoon built from        *)
(* "0110000111111111"; a file may already be where the mutant of position  *)
(* 0 goes.                                                                 *)
(***************************************************************************)
Shared == <<"0","1","1","0","0","0","0","1", "1","1","1","1","1","1","1","1">>

MutantPositions == {-1, 0, 1, 16}

RunPaths == {PathJoin(Dir, <<"0">>)}

Args == {<<>>, <<"-", "v">>}

Timeouts == {0, 1}

OldFile == [content |-> <<1, 2, 3>>, mode |-> 384]

HarnessInit ==
    /\ ZoonIs(Shared, MaxZoons)
    /\ RunnerIdle
    /\ fs \in {<<>>, PathJoin(Dir, <<"0">>) :> OldFile}
    /\ calls = [k \in Callers |-> IdleCall]

HarnessNext ==
    \/ \E k \in Callers : \E p \in RunPaths : \E a \in Args : \E t \in Timeouts :
          CallRun(k, p, a, t)
    \/ \E k \in Callers : \E p \in MutantPositions : \E a \in Args : \E t \in Timeouts :
          CallMutateAndRun(k, p, a, t)
    \/ \E k \in Callers : \E mode \in CreateModes : Open(k, mode)
    \/ \E k \in Callers : Write(k)
    \/ \E k \in Callers : Chmod(k)
    \/ \E k \in Callers : \E proc \in Behaviours : Launch(k, proc)

HarnessSpec == HarnessInit /\ [][HarnessNext]_vars

(***************************************************************************)
(* Claims about the Zoon value type.                                       *)
(***************************************************************************)
\* The bytes of a Zoon that was built from a bit-literal, as built.
AsBuilt(z) == to_bytes(zoons[z].initializer)

\* C1: copy-on-mutate.  After any sequence of copy-construct, mutate and
\* delete calls on the first Zoon or on Zoons derived from it, and of client
\* writes into the arrays of derived Zoons, the first Zoon still holds the
\* bytes it was built with; no two Zoons share an array, and in particular a
\* returned Zoon never shares the array of its receiver.
CopyOnMutate ==
    /\ byteseq(1) = AsBuilt(1)
    /\ \A i, j \in 1..Len(zoons) : i # j => zoons[i].store # zoons[j].store
    /\ (last.op \in {"copy", "mutate", "delete"} /\ last.res # NoResult)
          => zoons[last.res].store # zoons[last.recv].store

\* A client wrote into the array of a Zoon derived from the first one, a third
\* Zoon having been derived from that derived Zoon.
CopyOnMutateWitness ==
    /\ Len(zoons) = 3
    /\ zoons[3].initializer = 2
    /\ last.op = "setbyte"
    /\ last.recv = 2
    /\ byteseq(2) # last.before
    /\ byteseq(2) # byteseq(1)

\* Byte b with the bit of weight w inverted.
FlipAt(b, w) == IF (b \div w) % 2 = 1 THEN b - w ELSE b + w

InBits(p, bytes) == 0 <= p /\ p < 8 * Len(bytes)

\* C2: for 0 <= p < length in bits, mutate(p) returns a Zoon of the same byte
\* length, equal to the receiver at every index except p div 8, where the
\* bit of weight 2^(7 - p mod 8) is inverted; the Zoon built from "01100001"
\* (0x61) becomes 0xE1 under mutate(0).
MutateFlipsOneBit ==
    (last.op = "mutate" /\ InBits(last.a, last.before)) =>
        /\ last.out = "ok"
        /\ last.res # NoResult
        /\ LET m == byteseq(last.res)
           IN  /\ Len(m) = Len(last.before)
               /\ \A i \in 1..Len(m) :
                     m[i] = IF i - 1 = last.a \div 8
                            THEN FlipAt(last.before[i], 2 ^ (7 - (last.a % 8)))
                            ELSE last.before[i]
               /\ (/\ last.recv = 1
                   /\ zoons[1].initializer = <<"0","1","1","0","0","0","0","1">>
                   /\ last.a = 0)
                     => (last.before = <<97>> /\ m = <<225>>)

\* mutate(9) on a two-byte Zoon returned: bit 1 of the second byte.
MutateFlipsOneBitWitness ==
    /\ last.op = "mutate"
    /\ last.a = 9
    /\ Len(last.before) = 2
    /\ last.out = "ok"
    /\ byteseq(last.res) # last.before

\* C3: for a position outside 0 <= p < length in bits, mutate(p) ends in an
\* error and returns no Zoon.
MutateOutOfRangeFails ==
    (last.op = "mutate" /\ ~InBits(last.a, last.before)) =>
        (last.out # "ok" /\ last.res = NoResult)

InBytes(start, stop, bytes) == 0 <= start /\ start <= stop /\ stop <= Len(bytes)

\* C4: for 0 <= start <= stop <= n, delete(start, stop) returns a Zoon of byte
\* length n - (stop - start) holding the receiver's bytes [0, start) followed
\* by its bytes [stop, n).
DeleteRemovesRange ==
    (last.op = "delete" /\ InBytes(last.a, last.b, last.before)) =>
        /\ last.out = "ok"
        /\ last.res # NoResult
        /\ LET m == byteseq(last.res)
               n == Len(last.before)
           IN  /\ Len(m) = n - (last.b - last.a)
               /\ m = SubSeq(last.before, 1, last.a)
                        \o SubSeq(last.before, last.b + 1, n)

\* delete(0, 1) on a two-byte Zoon returned its second byte alone.
DeleteRemovesRangeWitness ==
    /\ last.op = "delete"
    /\ last.a = 0
    /\ last.b = 1
    /\ Len(last.before) = 2
    /\ last.out = "ok"
    /\ Len(byteseq(last.res)) = 1

\* C5: for start, stop that do not satisfy 0 <= start <= stop <= n,
\* delete(start, stop) ends in an error and returns no Zoon.
DeleteOutOfRangeFails ==
    (last.op = "delete" /\ ~InBytes(last.a, last.b, last.before)) =>
        (last.out # "ok" /\ last.res = NoResult)

(***************************************************************************)
(* Claims about the process runner.                                        *)
(***************************************************************************)
\* C6: an invocation makes one attempt and has a result exactly in its one
\* terminal state, which fixes it: Completed with status 0 gives
\* (0, success, stdout, ""); LaunchFailed gives code 2, file_not_found_error
\* and no stdout; TimedOut, reached only when the command has not finished
\* within the timeout, gives (124, timeout_expired, "", "") whatever the
\* process's own status; a command that exits 0 in less than the timeout
\* gives success; and the kind is success exactly when the code is 0.
RunnerOutcome ==
    /\ runner.attempts <= 1
    /\ (runner.result # NoRun) <=> RunnerTerminal
    /\ RunnerTerminal =>
          LET r == runner.result
              p == runner.proc
          IN  /\ (runner.state = "LaunchFailed") <=> ~p.found
              /\ (runner.state = "Completed" /\ p.exit = 0)
                    => r = <<0, "success", p.out, NoText>>
              /\ runner.state = "LaunchFailed"
                    => (r[1] = 2 /\ r[2] = "filenotfounderror" /\ r[3] = NoText)
              /\ runner.state = "TimedOut"
                    => /\ r = <<124, "timeoutexpired", NoText, NoText>>
                       /\ p.runtime >= runner.timeout
              /\ (p.found /\ p.runtime < runner.timeout /\ p.exit = 0)
                    => r[2] = "success"
              /\ (r[2] = "success") <=> (r[1] = 0)

\* A process that would have exited 0 after 3 seconds was killed after 1.
RunnerOutcomeWitness ==
    /\ runner.state = "TimedOut"
    /\ runner.proc.exit = 0
    /\ runner.proc.runtime = 3
    /\ runner.timeout = 1
    /\ runner.result[1] = 124

Entered(k) == calls[k].pc # "idle"

NoEffect(c) ==
    /\ c.touched = {}
    /\ c.steps = <<>>
    /\ c.launched = NotLaunched
    /\ c.result = NoRun

\* The files as they were before any call.
Untouched == fs \in {<<>>, <<"d", "/", "0">> :> OldFile}

\* C8: run and mutate_and_run called with timeout <= 0 fail with an
\* assertion error before any effect.
NonPositiveTimeoutAsserts ==
    /\ \A k \in Callers :
          (Entered(k) /\ calls[k].timeout <= 0) =>
              /\ calls[k].pc = "failed"
              /\ calls[k].error = "AssertionError"
              /\ NoEffect(calls[k])
    /\ (\A k \in Callers : Entered(k) => calls[k].timeout <= 0) => Untouched

\* Whether mutate(position) raises on the shared Zoon.
MutateRaises(position) ==
    position < -(8 * Len(AsBuilt(1))) \/ position >= 8 * Len(AsBuilt(1))

\* C8, amended: run called with timeout <= 0 fails with an assertion error,
\* and mutate_and_run called with timeout <= 0 fails with the assertion error
\* when mutate(position) returns and with mutate's index error when it
\* raises; in every case before any effect: no file is created, overwritten
\* or given other permission bits, no process is started, no result returned.
NonPositiveTimeoutFails ==
    /\ \A k \in Callers :
          (Entered(k) /\ calls[k].timeout <= 0) =>
              /\ calls[k].pc = "failed"
              /\ calls[k].error =
                    IF calls[k].kind = "mutate_and_run" /\ MutateRaises(calls[k].position)
                    THEN "IndexError"
                    ELSE "AssertionError"
              /\ NoEffect(calls[k])
    /\ (\A k \in Callers : Entered(k) => calls[k].timeout <= 0) => Untouched

\* Both calls were made with timeout 0: a run, and a mutate_and_run whose
\* mutate returned.
NonPositiveTimeoutFailsWitness ==
    /\ calls[1].kind = "run"
    /\ calls[1].timeout = 0
    /\ calls[1].error = "AssertionError"
    /\ calls[2].kind = "mutate_and_run"
    /\ calls[2].position = 1
    /\ calls[2].timeout = 0
    /\ calls[2].error = "AssertionError"

\* The path of the mutant of each position tried.
PathOfPosition(position) ==
    CASE position = -1 -> <<"d", "/", "-", "1">>
      [] position = 0  -> <<"d", "/", "0">>
      [] position = 1  -> <<"d", "/", "1">>
      [] position = 16 -> <<"d", "/", "1", "6">>

\* Every other call made so far is a mutate_and_run of another position.
OthersElsewhere(k) ==
    \A j \in Callers \ {k} :
        Entered(j) => /\ calls[j].kind = "mutate_and_run"
                      /\ calls[j].position # calls[k].position

\* C9: among concurrent mutate_and_run calls of pairwise distinct positions,
\* under every interleaving of their steps, the file each call launches holds
\* the bytes of its own mutant and has mode rwxr-xr-x at launch, no call
\* touches another call's file, and the shared Zoon is unchanged throughout.
ConcurrentMutantsIsolated ==
    /\ byteseq(1) = AsBuilt(1)
    /\ \A k \in Callers :
          (calls[k].kind = "mutate_and_run" /\ OthersElsewhere(k)) =>
              /\ calls[k].touched \subseteq {PathOfPosition(calls[k].position)}
              /\ \A j \in Callers \ {k} : calls[j].touched \cap calls[k].touched = {}
              /\ calls[k].pc = "done" =>
                    /\ calls[k].launched.content = byteseq(calls[k].zoon)
                    /\ calls[k].launched.content # byteseq(1)
                    /\ calls[k].launched.mode = ExecMode

\* The mutants of positions 0 and 1 were both launched, the second caller's
\* file written before the first caller's was.
ConcurrentMutantsIsolatedWitness ==
    /\ calls[1].kind = "mutate_and_run" /\ calls[1].position = 0
    /\ calls[2].kind = "mutate_and_run" /\ calls[2].position = 1
    /\ calls[1].pc = "done" /\ calls[2].pc = "done"
    /\ calls[1].zoon > calls[2].zoon
    /\ calls[1].launched.content = <<225, 255>>
    /\ calls[2].launched.content = <<33, 255>>

\* No other call made so far names the path of call k.
Undisturbed(k) ==
    \A j \in Callers \ {k} : Entered(j) => calls[j].path # calls[k].path

IsPrefix(s, t) == Len(s) <= Len(t) /\ s = SubSeq(t, 1, Len(s))

\* C10: a run with timeout > 0 writes, then sets the mode, then launches: the
\* runner is invoked only after the file holds a byte-for-byte copy of the
\* Zoon, whatever it held before, and after its mode is 0o755, with the
\* command "<path> <args>"; mutate_and_run does so for the mutant at
\* dir/str(position).  (What the file holds is stated for a call whose path
\* no other call names; the order and the command for every call.)
RunWritesChmodsLaunches ==
    \A k \in Callers :
        LET c == calls[k]
        IN  /\ IsPrefix(c.steps, <<"write", "chmod", "launch">>)
            /\ c.steps # <<>> => c.timeout > 0
            /\ c.pc = "done" =>
                  /\ c.steps = <<"write", "chmod", "launch">>
                  /\ c.result # NoRun
                  /\ c.launched.command = c.path \o <<" ">> \o c.args
                  /\ c.kind = "mutate_and_run" =>
                        /\ c.path = PathOfPosition(c.position)
                        /\ c.zoon # 1
                  /\ c.kind = "run" => c.zoon = 1
                  /\ c.moded = 493
                  /\ Undisturbed(k) =>
                        /\ c.written = byteseq(c.zoon)
                        /\ c.launched.content = byteseq(c.zoon)
                        /\ c.launched.mode = 493

\* A run of the shared Zoon with arguments replaced a longer file that was
\* already at its path.
RunWritesChmodsLaunchesWitness ==
    /\ calls[1].kind = "run"
    /\ calls[1].pc = "done"
    /\ calls[1].existed
    /\ calls[1].args = <<"-", "v">>
    /\ calls[1].launched.content = <<97, 255>>
    /\ calls[1].launched.command = <<"d", "/", "0", " ", "-", "v">>
    /\ ~Entered(2)

====
